---- MODULE Spec2Model ----
(***************************************************************************)
(* OCR training planner (src/script.js, src/tracker.js, src/review.js).    *)
(*                                                                         *)
(* Conventions of the model                                                *)
(*  - A calendar date is a day number; Dow(d) = d % 7 is Date.getDay(),    *)
(*    0 = Sunday, 1 = Monday.  A clock reading lies strictly inside its    *)
(*    day, and the two clock readings of one call lie in the same day.     *)
(*  - A JavaScript number that holds a mileage is a fixed-point integer in *)
(*    units of 1/Scale mile, rounded to nearest after every product as the *)
(*    double arithmetic does.  A mileage recorded by toFixed(1) is an      *)
(*    integer number of tenths of a mile.  On the mileage inputs drawn     *)
(*    here the fixed-point values agree with IEEE-754 doubles in every     *)
(*    toFixed(1) result.                                                   *)
(*  - A form field that does not parse as a number is NaN.                 *)
(*  - The day texts are written in ASCII.                                  *)
(***************************************************************************)
EXTENDS Integers, Sequences, FiniteSets, TLC

VARIABLES
  today,            \* the day the clock shows
  ocrLogs,          \* localStorage 'ocrLogs': the stored list of log entries
  ocrBasePlan,      \* localStorage 'ocrBasePlan'
  heap,             \* plan objects by reference
  basePlan,         \* window.basePlan (a reference, NullRef before a submit)
  currentPlan,      \* the listener closure's currentPlan
  winCurrentPlan,   \* window.currentPlan
  planOutputHidden, \* planOutput.hidden
  pending,          \* storage-change notifications not yet delivered
  lastGenerated,    \* what generatePlan returned to the latest submission
  lastWriteFailed,  \* whether the latest submission's setItem threw
  data,             \* the form data of the call under study
  aPlan,            \* the plan object handed to adaptPlan
  aPrev,            \* that object before the latest adaptPlan call
  aCount,           \* adaptPlan calls on the object since the log store last changed
  aModes,           \* the modes those calls ended with
  aStats,           \* the statistics the latest of those calls computed
  logsText,         \* what the text stored under 'ocrLogs' parses to
  lastCall,         \* the latest operation that read the log store
  generatedOn       \* the day of the latest submission

vars == <<today, ocrLogs, ocrBasePlan, heap, basePlan, currentPlan, winCurrentPlan,
          planOutputHidden, pending, lastGenerated, lastWriteFailed,
          data, aPlan, aPrev, aCount, aModes, aStats,
          logsText, lastCall, generatedOn>>

pageVars == <<ocrBasePlan, heap, basePlan, currentPlan, winCurrentPlan,
              planOutputHidden, pending, lastGenerated, lastWriteFailed>>

callVars == <<data, aPlan, aPrev, aCount, aModes, aStats>>

readVars == <<logsText, lastCall, generatedOn>>

----------------------------------------------------------------------------
(* Bounds of the model *)

MaxWeeks == 21     \* longest plan horizon drawn, in weeks
MaxDay == 3        \* last day the clock reaches
MaxLogs == 2       \* longest stored log list
MaxAdapt == 2      \* most adaptPlan calls on one object
MaxStrength == 3   \* largest strengthFrequency drawn
NumRefs == 4       \* plan objects that can be live at once

----------------------------------------------------------------------------
(* Numbers *)

Scale == 1000 * 1000

NaN == 0 - (Scale * 1000)

Max(a, b) == IF a >= b THEN a ELSE b

Min(a, b) == IF a <= b THEN a ELSE b

Dow(d) == d % 7

\* Math.round of a non-negative quotient num/den
RoundDiv(num, den) == (2 * num + den) \div (2 * den)

----------------------------------------------------------------------------
(* weeksBetween: floor((date2 - date1) / msPerWeek), at least 1.  date2 is  *)
(* the midnight that starts raceDay, date1 a reading inside day `now`.      *)

WeeksBetween(now, raceDay) == Max(1, (raceDay - now - 1) \div 7)

----------------------------------------------------------------------------
(* generatePlan: phase lengths *)

PhaseLengthsClamped(weeksToRace) ==
  LET b == IF weeksToRace < 8 THEN 2 ELSE IF weeksToRace < 12 THEN 3
           ELSE IF weeksToRace < 20 THEN 4 ELSE 6
      t == IF weeksToRace < 20 THEN 1 ELSE 2
      s == IF weeksToRace < 8 THEN 1 ELSE IF weeksToRace < 12 THEN 2
           ELSE IF weeksToRace < 20 THEN 3 ELSE 5
  IN [baseWeeks |-> b, buildWeeks |-> Max(0, weeksToRace - b - s - t),
      specificWeeks |-> s, taperWeeks |-> t]

PhaseLengths(weeksToRace) ==
  IF weeksToRace < 8 THEN
    [baseWeeks |-> 2, buildWeeks |-> weeksToRace - 2 - 1 - 1,
     specificWeeks |-> 1, taperWeeks |-> 1]
  ELSE IF weeksToRace < 12 THEN
    [baseWeeks |-> 3, buildWeeks |-> weeksToRace - 3 - 2 - 1,
     specificWeeks |-> 2, taperWeeks |-> 1]
  ELSE IF weeksToRace < 20 THEN
    [baseWeeks |-> 4, buildWeeks |-> weeksToRace - 4 - 3 - 1,
     specificWeeks |-> 3, taperWeeks |-> 1]
  ELSE
    [baseWeeks |-> 6, buildWeeks |-> weeksToRace - 6 - 5 - 2,
     specificWeeks |-> 5, taperWeeks |-> 2]

----------------------------------------------------------------------------
(* generatePlan: weekly mileage progression *)

\* Math.max(0, parseFloat(data.runningMileage) || 0); the field is in
\* hundredths of a mile
InitialMiles(runningMileage) ==
  IF runningMileage = NaN THEN 0 ELSE Max(0, runningMileage * (Scale \div 100))

\* peakMultiplier, in tenths
PeakMultiplier(raceDistance) ==
  IF raceDistance = "5k" THEN 15
  ELSE IF raceDistance = "10k" THEN 18
  ELSE IF raceDistance = "21k" THEN 22
  ELSE 30

\* Math.max(currentMiles * peakMultiplier, 10)
TargetPeak(initialMiles, raceDistance) ==
  Max(RoundDiv(initialMiles * PeakMultiplier(raceDistance), 10), 10 * Scale)

\* inc, in percent
Inc(experience) ==
  IF experience = "beginner" THEN 8
  ELSE IF experience = "intermediate" THEN 10
  ELSE 12

\* currentMiles = currentMiles * (1 + inc), with no cap
NextMilesUncapped(currentMiles, targetPeak, experience) ==
  currentMiles + RoundDiv(currentMiles * Inc(experience), 100)

\* currentMiles = Math.min(targetPeak, currentMiles * (1 + inc))
NextMiles(currentMiles, targetPeak, experience) ==
  Min(targetPeak, currentMiles + RoundDiv(currentMiles * Inc(experience), 100))

\* the weeklyMiles array after the loop over `weeks` weeks
RECURSIVE WeeklyMiles(_, _, _, _)
WeeklyMiles(currentMiles, targetPeak, experience, weeks) ==
  IF weeks <= 0 THEN <<>>
  ELSE <<currentMiles>> \o
       WeeklyMiles(NextMiles(currentMiles, targetPeak, experience),
                   targetPeak, experience, weeks - 1)

\* Number.prototype.toFixed(1) of a mileage, as tenths: the nearest tenth,
\* the larger one on a tie
ToFixed1(miles) == (miles + (Scale \div 20)) \div (Scale \div 10)

----------------------------------------------------------------------------
(* generatePlan: day texts *)

EasyRun == "Easy run - stay at conversational pace (RPE 3-4)."
TempoRun == "Tempo run - moderate pace (RPE 5-6)."
IntervalRun == "Interval or hill session - short bursts at RPE 6-7 with recovery jogs."
RaceSpecificRun == "Race-specific run - include carries or obstacles and maintain RPE 5-7."
ShortSharpeningRun == "Short sharpening run - brief bursts at RPE 6, mostly easy."
BaseStrength == "General strength circuit - squats, push-ups, lunges, core exercises."
BuildStrength == "Full-body strength with added grip work - deadlifts, pull-ups, presses."
SpecificStrength == "Obstacle strength & carries - rope climbs, sandbag/bucket carries, rig practice."
TaperStrength == "Light strength & mobility - keep muscles activated but prioritise recovery."
ActiveRecovery == "Active recovery/mobility - gentle stretching or yoga."
RestDay == "Rest day."

generateRunDesc(isHard, phase) ==
  IF ~isHard THEN EasyRun
  ELSE IF phase = "Base" THEN TempoRun
  ELSE IF phase = "Build" THEN IntervalRun
  ELSE IF phase = "Specific" THEN RaceSpecificRun
  ELSE ShortSharpeningRun

generateStrengthDesc(phase) ==
  IF phase = "Base" THEN BaseStrength
  ELSE IF phase = "Build" THEN BuildStrength
  ELSE IF phase = "Specific" THEN SpecificStrength
  ELSE TaperStrength

\* parseInt(field, 10) || dflt
ParseIntOr(field, dflt) == IF field = NaN \/ field = 0 THEN dflt ELSE field

\* the phase of week index w (0-based)
PhaseOf(w, ph) ==
  IF w < ph.baseWeeks THEN "Base"
  ELSE IF w < ph.baseWeeks + ph.buildWeeks THEN "Build"
  ELSE IF w < ph.baseWeeks + ph.buildWeeks + ph.specificWeeks THEN "Specific"
  ELSE "Taper"

\* the loop over d = 0..6 of one week, from day d on
RECURSIVE FillDays(_, _, _, _, _, _, _, _, _)
FillDays(d, lastDay, runCount, strengthCount, hardRunUsed, runDays, strengthDays, trainingDays, phase) ==
  IF d >= lastDay THEN <<>>
  ELSE IF runCount < runDays THEN
    LET hardRuns == IF trainingDays >= 4 THEN 1 ELSE 0
        isHard == /\ hardRunUsed < hardRuns
                  /\ runDays - runCount <= hardRuns - hardRunUsed + (7 - d)
    IN <<generateRunDesc(isHard, phase)>> \o
       FillDays(d + 1, lastDay, runCount + 1, strengthCount,
                IF isHard THEN hardRunUsed + 1 ELSE hardRunUsed,
                runDays, strengthDays, trainingDays, phase)
  ELSE IF strengthCount < strengthDays THEN
    <<generateStrengthDesc(phase)>> \o
    FillDays(d + 1, lastDay, runCount, strengthCount + 1, hardRunUsed,
             runDays, strengthDays, trainingDays, phase)
  ELSE IF d < trainingDays THEN
    <<ActiveRecovery>> \o
    FillDays(d + 1, lastDay, runCount, strengthCount, hardRunUsed,
             runDays, strengthDays, trainingDays, phase)
  ELSE
    <<RestDay>> \o
    FillDays(d + 1, lastDay, runCount, strengthCount, hardRunUsed,
             runDays, strengthDays, trainingDays, phase)

\* Array(7).fill('') and the loop that assigns days[0..5] only
WeekDaysShort(trainingDays, strengthFreq, phase) ==
  LET runDays == Max(1, RoundDiv(trainingDays * 6, 10))
      strengthDays == Min(strengthFreq, trainingDays - runDays)
  IN FillDays(0, 6, 0, 0, 0, runDays, strengthDays, trainingDays, phase)

\* the days array of one week
WeekDays(trainingDays, strengthFreq, phase) ==
  LET runDays == Max(1, RoundDiv(trainingDays * 6, 10))
      strengthDays == Min(strengthFreq, trainingDays - runDays)
  IN FillDays(0, 7, 0, 0, 0, runDays, strengthDays, trainingDays, phase)

----------------------------------------------------------------------------
(* generatePlan *)

NullPlan ==
  [weeks |-> <<>>,
   phases |-> [baseWeeks |-> 0, buildWeeks |-> 0, specificWeeks |-> 0, taperWeeks |-> 0],
   weeksToRace |-> 0]

GeneratePlan(d, now) ==
  LET weeksToRace == WeeksBetween(now, d.raceDate)
      ph == PhaseLengths(weeksToRace)
      initialMiles == InitialMiles(d.runningMileage)
      targetPeak == TargetPeak(initialMiles, d.raceDistance)
      weeklyMiles == WeeklyMiles(initialMiles, targetPeak, d.experience, weeksToRace)
      trainingDays == ParseIntOr(d.trainingDays, 3)
      strengthFreq == ParseIntOr(d.strengthFrequency, 1)
  IN [weeks |-> [w \in 1..weeksToRace |->
                   [week |-> w,
                    phase |-> PhaseOf(w - 1, ph),
                    mileage |-> ToFixed1(weeklyMiles[w]),
                    days |-> WeekDays(trainingDays, strengthFreq, PhaseOf(w - 1, ph))]],
      phases |-> ph,
      weeksToRace |-> weeksToRace]

----------------------------------------------------------------------------
(* The log store.  An entry is [date, rpe]: date is the day the form's     *)
(* logDate names, NoDate when the field is empty; rpe is the number the    *)
(* text of logRPE parses to, NaN when it parses to none.                   *)

NoDate == 0

\* logMap[iso]: whether some entry with a non-empty date carries this date
Logged(logs, day) == \E k \in 1..Len(logs) : logs[k].date # NoDate /\ logs[k].date = day

\* logMap[iso]: the entry stored last under this date
LogOf(logs, day) ==
  logs[CHOOSE k \in 1..Len(logs) :
         /\ logs[k].date = day
         /\ \A j \in (k + 1)..Len(logs) : logs[j].date # day]

\* The text stored under 'ocrLogs': the text of a list (of the entries
\* ocrLogs), a text JSON.parse rejects, or the text of a value that is not a
\* list (an object, a number, a string, null).
LogsTexts == {"list", "unparseable", "notAList"}

\* what a reader that wraps JSON.parse in try/catch goes on with
ParsedLogs(text, logs) == IF text = "list" THEN logs ELSE <<>>

\* whether the operation ends in an error nothing catches.  adaptPlan and
\* review.js parse inside try/catch and call logs.forEach outside it;
\* renderPlan and downloadCalendar do both inside try/catch; loadLogs and the
\* logForm submit listener parse, sort and push with no try/catch.
Raises(op, text) ==
  CASE op = "adaptPlan" -> text = "notAList"
    [] op = "renderPlan" -> FALSE
    [] op = "downloadCalendar" -> FALSE
    [] op = "review" -> text = "notAList"
    [] op = "loadLogs" -> text # "list"
    [] op = "logSubmit" -> text # "list"

\* no plan object
NullRef == 0

\* the record of an operation that read the log store: whether it raised,
\* the start date it computed and, on the planner page, the plan object it
\* was given
Call(op, raised, startDate, plan) ==
  [op |-> op, raised |-> raised, startDate |-> startDate, plan |-> plan]

NoCall == Call("none", FALSE, NoDate, NullRef)

----------------------------------------------------------------------------
(* adaptPlan *)

\* startDate: today moved forward to a Monday
StartDate(now) ==
  LET dow == Dow(now)
      diffToMon == IF dow = 1 THEN 0 ELSE IF dow = 0 THEN 1 ELSE 8 - dow
  IN now + diffToMon

\* the loop with the condition d < now, which stops before today
RECURSIVE WalkDaysBeforeToday(_, _, _, _, _, _)
WalkDaysBeforeToday(i, startDate, endDate, now, logs, st) ==
  IF ~(startDate + i < now /\ startDate + i < endDate) THEN st
  ELSE
    LET day == startDate + i
        weekIndex == i \div 7
        rpeNum == LogOf(logs, day).rpe
        seen ==
          IF Logged(logs, day) THEN
            [st EXCEPT !.completedSessions = @ + 1,
                       !.totalRPE = IF rpeNum # NaN THEN @ + rpeNum ELSE @,
                       !.lastLoggedWeekIndex = IF weekIndex > @ THEN weekIndex ELSE @]
          ELSE st
    IN WalkDaysBeforeToday(i + 1, startDate, endDate, now, logs,
                           [seen EXCEPT !.totalDaysPassed = @ + 1])

\* the loop over the days from startDate: the statistics after it, from
\* day offset i on
RECURSIVE WalkDays(_, _, _, _, _, _)
WalkDays(i, startDate, endDate, now, logs, st) ==
  IF ~(startDate + i <= now /\ startDate + i < endDate) THEN st
  ELSE
    LET day == startDate + i
        weekIndex == i \div 7
        rpeNum == LogOf(logs, day).rpe
        seen ==
          IF Logged(logs, day) THEN
            [st EXCEPT !.completedSessions = @ + 1,
                       !.totalRPE = IF rpeNum # NaN THEN @ + rpeNum ELSE @,
                       !.lastLoggedWeekIndex = IF weekIndex > @ THEN weekIndex ELSE @]
          ELSE st
    IN WalkDays(i + 1, startDate, endDate, now, logs,
                [seen EXCEPT !.totalDaysPassed = @ + 1])

\* lastLoggedWeekIndex, completedSessions, totalDaysPassed and totalRPE as
\* declared
NoStats ==
  [lastLoggedWeekIndex |-> -1, completedSessions |-> 0,
   totalDaysPassed |-> 0, totalRPE |-> 0]

Stats(plan, logs, now) ==
  WalkDays(0, StartDate(now), StartDate(now) + Len(plan.weeks) * 7, now, logs, NoStats)

\* the mode with the two effort thresholds exchanged
SelectModeSwapped(st) ==
  IF 2 * st.completedSessions < st.totalDaysPassed
     \/ st.totalRPE >= 4 * st.completedSessions
  THEN "lighten"
  ELSE IF 5 * st.completedSessions >= 4 * st.totalDaysPassed
          /\ st.totalRPE <= 6 * st.completedSessions
  THEN "intensify"
  ELSE "none"

\* completionRatio < 0.5 || avgRPE >= 6, else completionRatio >= 0.8 &&
\* avgRPE <= 4, with the quotients cleared
SelectMode(st) ==
  IF 2 * st.completedSessions < st.totalDaysPassed
     \/ st.totalRPE >= 6 * st.completedSessions
  THEN "lighten"
  ELSE IF 5 * st.completedSessions >= 4 * st.totalDaysPassed
          /\ st.totalRPE <= 4 * st.completedSessions
  THEN "intensify"
  ELSE "none"

\* the early return that looks at the elapsed days only
NothingToAdaptDaysOnly(st) == st.totalDaysPassed = 0

\* totalDaysPassed === 0 || completedSessions === 0
NothingToAdapt(st) == st.totalDaysPassed = 0 \/ st.completedSessions = 0

\* the mode adaptPlan ends with: "return" when it returns before choosing
AdaptMode(plan, logs, now) ==
  IF plan = NullPlan \/ NothingToAdapt(Stats(plan, logs, now)) THEN "return"
  ELSE SelectMode(Stats(plan, logs, now))

\* mileages (in tenths) whose double product with 0.9 lies just below the
\* midpoint of two tenths, so that toFixed(1) gives the smaller one
ProductBelowTie ==
  {35, 45, 115, 165, 205, 255, 305, 355, 385, 435, 485, 535, 585, 635, 685, 745,
   795, 845, 895, 945, 995, 1045, 1095, 1145, 1195, 1245, 1295, 1345, 1395, 1465,
   1515, 1565, 1615, 1665, 1715, 1765, 1815, 1865, 1915, 1965}

\* the mileage cut off after one decimal instead of rounded
ScaledMileageTruncated(mileage, mode) ==
  (mileage * (IF mode = "lighten" THEN 9 ELSE 11)) \div 10

\* the mileage scaled with the two factors exchanged
ScaledMileageSwapped(mileage, mode) ==
  LET hundredths == mileage * (IF mode = "lighten" THEN 11 ELSE 9)
  IN IF mode # "lighten" /\ mileage \in ProductBelowTie
     THEN hundredths \div 10
     ELSE (hundredths + 5) \div 10

\* (parseFloat(weekObj.mileage) * factor).toFixed(1)
ScaledMileage(mileage, mode) ==
  LET hundredths == mileage * (IF mode = "lighten" THEN 9 ELSE 11)
  IN IF mode = "lighten" /\ mileage \in ProductBelowTie
     THEN hundredths \div 10
     ELSE (hundredths + 5) \div 10

\* /Interval|Tempo|race-specific|short/i.test(desc)
MatchesLighten(desc) ==
  desc \in {TempoRun, IntervalRun, RaceSpecificRun, ShortSharpeningRun}

\* /Easy run|Active recovery|Rest day|mobility/i.test(desc)
MatchesIntensify(desc) ==
  desc \in {EasyRun, ActiveRecovery, RestDay, TaperStrength}

\* the loop over one week's days, from index d (1-based) on
RECURSIVE ModifyDays(_, _, _, _)
ModifyDays(days, d, mode, modified) ==
  IF d > Len(days) THEN days
  ELSE IF mode = "lighten" /\ MatchesLighten(days[d]) /\ ~modified THEN
    ModifyDays([days EXCEPT ![d] = ActiveRecovery], d + 1, mode, TRUE)
  ELSE IF mode = "intensify" /\ MatchesIntensify(days[d]) /\ ~modified THEN
    ModifyDays([days EXCEPT ![d] = IntervalRun], d + 1, mode, TRUE)
  ELSE ModifyDays(days, d + 1, mode, modified)

\* the week's days with every matching day replaced
AdaptDaysAll(days, mode) ==
  [d \in 1..Len(days) |->
     IF mode = "lighten" /\ MatchesLighten(days[d]) THEN ActiveRecovery
     ELSE IF mode = "intensify" /\ MatchesIntensify(days[d]) THEN IntervalRun
     ELSE days[d]]

\* let modified = false and the loop over the week's days
AdaptDays(days, mode) == ModifyDays(days, 1, mode, FALSE)

\* the loop body that also rewrites the last logged week
AdaptWeekFromLastLogged(weekObj, w, lastLoggedWeekIndex, mode) ==
  IF w >= lastLoggedWeekIndex THEN
    [weekObj EXCEPT !.mileage = ScaledMileage(@, mode),
                    !.days = AdaptDays(@, mode)]
  ELSE weekObj

\* the body of the loop over the weeks, for the week at index w (0-based)
AdaptWeek(weekObj, w, lastLoggedWeekIndex, mode) ==
  IF w > lastLoggedWeekIndex THEN
    [weekObj EXCEPT !.mileage = ScaledMileage(@, mode),
                    !.days = AdaptDays(@, mode)]
  ELSE weekObj

\* adaptPlan without the return on mode 'none'
AdaptPlanNoneFallsThrough(plan, logs, now) ==
  LET st == Stats(plan, logs, now)
      mode == AdaptMode(plan, logs, now)
  IN IF mode = "return" THEN plan
     ELSE [plan EXCEPT !.weeks =
             [w \in 1..Len(plan.weeks) |->
                AdaptWeek(plan.weeks[w], w - 1, st.lastLoggedWeekIndex, mode)]]

\* the plan object after adaptPlan(plan)
AdaptPlan(plan, logs, now) ==
  LET st == Stats(plan, logs, now)
      mode == AdaptMode(plan, logs, now)
  IN IF mode \in {"return", "none"} THEN plan
     ELSE [plan EXCEPT !.weeks =
             [w \in 1..Len(plan.weeks) |->
                AdaptWeek(plan.weeks[w], w - 1, st.lastLoggedWeekIndex, mode)]]

----------------------------------------------------------------------------
(* Inputs drawn *)

Distances == {"5k", "10k", "21k", "ultra"}

Experiences == {"beginner", "intermediate", "advanced"}

\* runningMileage fields, in hundredths of a mile
MileageFields == {NaN, 0 - 300, 0, 500, 1000, 1005, 2000}

\* raceDate fields, as days after the day of the submission
RaceOffsets == {7 * k + r : k \in 0..MaxWeeks, r \in {0, 1}}

TrainingDayFields == {NaN} \cup (0..7)

StrengthFields == {NaN} \cup (0..MaxStrength)

FormData(now, off, dist, exp, miles, td, sf) ==
  [raceDate |-> now + off, raceDistance |-> dist, experience |-> exp,
   runningMileage |-> miles, trainingDays |-> td, strengthFrequency |-> sf]

\* every horizon, distance, experience and mileage, with one week layout
MileageInputs(now) ==
  {FormData(now, off, dist, exp, miles, 4, 1) :
     off \in RaceOffsets, dist \in Distances, exp \in Experiences, miles \in MileageFields}

\* every week layout, with horizons of 1, 5 and 9 weeks
LayoutInputs(now) ==
  {FormData(now, off, "10k", "intermediate", 1000, td, sf) :
     off \in {3, 36, 64}, td \in TrainingDayFields, sf \in StrengthFields}

\* the plans drawn for adaptPlan: horizons of 1 and 5 weeks (5 weeks hold
\* every phase)
AdaptInputs(now) ==
  {FormData(now, off, dist, "intermediate", miles, td, 1) :
     off \in {3, 36}, dist \in {"5k", "ultra"}, miles \in {0, 1000, 1500},
     td \in {3, 4, 7}}

\* the submissions drawn for the planner page
PageInputs(now) ==
  {FormData(now, 36, "5k", "intermediate", 1000, 4, 1),
   FormData(now, 3, "ultra", "intermediate", 1500, 7, 1)}

\* the plans drawn for the operations that read the log store
StoreInputs(now) ==
  {FormData(now, 36, "5k", "intermediate", 1000, 4, 1),
   FormData(now, 3, "ultra", "intermediate", 1500, 7, 1)}

RpeFields == {NaN, 4, 5, 6}

\* logDate fields: none, the first Monday, the day after, the Monday after
LogDates == {NoDate, 1, 2, 8}

LogEntries == [date : LogDates, rpe : RpeFields]

\* the entries the tracker appends while the planner page or the readers of
\* the store are watched: no date or the first Monday; no effort or a hard
\* one
PageLogEntries == [date : {NoDate, 1}, rpe : {NaN, 6}]

NoData == FormData(0, 0, "5k", "beginner", NaN, NaN, NaN)

----------------------------------------------------------------------------
(* State after the pages have loaded *)

Refs == 1..NumRefs

InitPage ==
  /\ ocrBasePlan = NullPlan
  /\ heap = [r \in Refs |-> NullPlan]
  /\ basePlan = NullRef
  /\ currentPlan = NullRef
  /\ winCurrentPlan = NullRef
  /\ planOutputHidden = TRUE
  /\ pending = 0
  /\ lastGenerated = NullPlan
  /\ lastWriteFailed = FALSE

InitCall ==
  /\ data = NoData
  /\ aPlan = NullPlan
  /\ aPrev = NullPlan
  /\ aCount = 0
  /\ aModes = <<>>
  /\ aStats = NoStats

InitRead ==
  /\ logsText = "list"
  /\ lastCall = NoCall
  /\ generatedOn = NoDate

----------------------------------------------------------------------------
(* tracker.js: the logForm submit listener appends one entry to the stored *)
(* list; every other page that is open gets a storage notification.        *)

\* logs.push(entry) with the entry put in front
PushEntryFront(logs, entry) == <<entry>> \o logs

\* logs.push(entry)
PushEntry(logs, entry) == Append(logs, entry)

LogSubmit(entry) ==
  /\ Len(ocrLogs) < MaxLogs
  /\ IF Raises("logSubmit", logsText)
     THEN UNCHANGED <<ocrLogs, pending, aCount, aModes>>
     ELSE /\ ocrLogs' = PushEntry(ocrLogs, entry)
          /\ pending' = pending + 1
          /\ aCount' = 0
          /\ aModes' = <<>>
  /\ lastCall' = Call("logSubmit", Raises("logSubmit", logsText), NoDate, NullRef)
  /\ UNCHANGED <<today, ocrBasePlan, heap, basePlan, currentPlan, winCurrentPlan,
                 planOutputHidden, lastGenerated, lastWriteFailed,
                 data, aPlan, aPrev, aStats, logsText, generatedOn>>

----------------------------------------------------------------------------
(* generatePlan applied to drawn form data *)

InitGen ==
  /\ today = 1
  /\ ocrLogs = <<>>
  /\ InitPage
  /\ InitRead
  /\ data \in MileageInputs(1) \cup LayoutInputs(1)
  /\ aPlan = NullPlan
  /\ aPrev = NullPlan
  /\ aCount = 0
  /\ aModes = <<>>
  /\ aStats = NoStats

Generate ==
  /\ aPlan = NullPlan
  /\ aPlan' = GeneratePlan(data, today)
  /\ UNCHANGED <<today, ocrLogs, pageVars, readVars, data, aPrev, aCount, aModes, aStats>>

SpecGen == InitGen /\ [][Generate]_vars

----------------------------------------------------------------------------
(* adaptPlan applied, once or again, to a plan object generated from drawn *)
(* form data, under a log store the tracker fills                          *)

AdaptClock == {1, 2, 7}

InitAdapt ==
  /\ today \in AdaptClock
  /\ ocrLogs = <<>>
  /\ InitPage
  /\ InitRead
  /\ data \in AdaptInputs(today)
  /\ aPlan = GeneratePlan(data, today)
  /\ aPrev = NullPlan
  /\ aCount = 0
  /\ aModes = <<>>
  /\ aStats = NoStats

\* adaptPlan(aPlan).  On a stored value that is not a list it stops in
\* logs.forEach, before it has touched the plan.
Adapt ==
  /\ aCount < MaxAdapt
  /\ aPrev' = aPlan
  /\ IF Raises("adaptPlan", logsText)
     THEN /\ aPlan' = aPlan
          /\ aModes' = Append(aModes, "raised")
          /\ aStats' = NoStats
     ELSE \E logs \in {ParsedLogs(logsText, ocrLogs)} :
          /\ aPlan' = AdaptPlan(aPlan, logs, today)
          /\ aModes' = Append(aModes, AdaptMode(aPlan, logs, today))
          /\ aStats' = Stats(aPlan, logs, today)
  /\ aCount' = aCount + 1
  /\ lastCall' = Call("adaptPlan", Raises("adaptPlan", logsText), StartDate(today),
                      NullRef)
  /\ UNCHANGED <<today, ocrLogs, pageVars, data, logsText, generatedOn>>

NextAdapt ==
  \/ Adapt
  \/ \E entry \in LogEntries : LogSubmit(entry)

SpecAdapt == InitAdapt /\ [][NextAdapt]_vars

----------------------------------------------------------------------------
(* The operations that read the log store, applied to a store whose text   *)
(* is a list the tracker fills, or is malformed from the start             *)

InitStore ==
  /\ today \in AdaptClock
  /\ ocrLogs = <<>>
  /\ logsText \in LogsTexts
  /\ data \in StoreInputs(today)
  /\ aPlan = GeneratePlan(data, today)
  /\ ocrBasePlan \in {NullPlan, GeneratePlan(data, today)}
  /\ heap = [r \in Refs |-> NullPlan]
  /\ basePlan = NullRef
  /\ currentPlan = NullRef
  /\ winCurrentPlan = NullRef
  /\ planOutputHidden = TRUE
  /\ pending = 0
  /\ lastGenerated = NullPlan
  /\ lastWriteFailed = FALSE
  /\ aPrev = NullPlan
  /\ aCount = 0
  /\ aModes = <<>>
  /\ aStats = NoStats
  /\ lastCall = NoCall
  /\ generatedOn = NoDate

\* renderPlan(aPlan)
RenderPlan ==
  /\ lastCall' = Call("renderPlan", Raises("renderPlan", logsText), StartDate(today),
                      NullRef)
  /\ UNCHANGED <<today, ocrLogs, pageVars, callVars, logsText, generatedOn>>

\* downloadCalendar(aPlan)
DownloadCalendar ==
  /\ aPlan # NullPlan
  /\ lastCall' = Call("downloadCalendar", Raises("downloadCalendar", logsText),
                      StartDate(today), NullRef)
  /\ UNCHANGED <<today, ocrLogs, pageVars, callVars, logsText, generatedOn>>

\* review.js, on load: it reads the log store when a base plan is stored
Review ==
  /\ lastCall' = IF ocrBasePlan = NullPlan THEN Call("review", FALSE, NoDate, NullRef)
                 ELSE Call("review", Raises("review", logsText), StartDate(today),
                           NullRef)
  /\ UNCHANGED <<today, ocrLogs, pageVars, callVars, logsText, generatedOn>>

\* tracker.js, on load: loadLogs() parses the text and sorts the list it got
LoadLogs ==
  /\ lastCall' = Call("loadLogs", Raises("loadLogs", logsText), NoDate, NullRef)
  /\ UNCHANGED <<today, ocrLogs, pageVars, callVars, logsText, generatedOn>>

NextStore ==
  \/ Adapt
  \/ RenderPlan
  \/ DownloadCalendar
  \/ Review
  \/ LoadLogs
  \/ \E entry \in PageLogEntries : LogSubmit(entry)

SpecStore == InitStore /\ [][NextStore]_vars

----------------------------------------------------------------------------
(* script.js: the planner page.  Plan objects live in `heap`; window and   *)
(* closure variables hold references to them, so that two variables can    *)
(* name one object.  A cell no variable refers to is NullPlan.             *)

\* JSON.parse(JSON.stringify(plan)): the value the text of a plan carries
JsonCopy(plan) ==
  [weeks |-> [w \in 1..Len(plan.weeks) |->
                [week |-> plan.weeks[w].week,
                 phase |-> plan.weeks[w].phase,
                 mileage |-> plan.weeks[w].mileage,
                 days |-> [d \in 1..Len(plan.weeks[w].days) |-> plan.weeks[w].days[d]]]],
   phases |-> [baseWeeks |-> plan.phases.baseWeeks,
               buildWeeks |-> plan.phases.buildWeeks,
               specificWeeks |-> plan.phases.specificWeeks,
               taperWeeks |-> plan.phases.taperWeeks],
   weeksToRace |-> plan.weeksToRace]

\* the least reference no live variable holds
FreshRef(live) == CHOOSE r \in Refs : r \notin live /\ \A q \in Refs \ live : r <= q

\* a copy that is the source object itself
CopyTargetAlias(src, fresh) == src

\* the object JSON.parse returns: a new one
CopyTarget(src, fresh) == fresh

\* the heap with the cells outside `live` released
Collect(h, live) == [r \in Refs |-> IF r \in live THEN h[r] ELSE NullPlan]

\* planForm submit listener.  The form is on display while planOutput is
\* hidden.  writeFails: localStorage.setItem throws and the catch logs it.
Submit(d, writeFails) ==
  /\ planOutputHidden
  /\ \E plan \in {GeneratePlan(d, today)} :
     \E baseCopy \in {JsonCopy(plan)} :
     \E adaptiveCopy \in {JsonCopy(baseCopy)} :
     \E adapted \in {AdaptPlan(adaptiveCopy, ocrLogs, today)} :
       LET base == FreshRef({})
           adaptive == CopyTarget(base, FreshRef({base}))
       IN /\ lastGenerated' = plan
          /\ ocrBasePlan' = IF writeFails THEN ocrBasePlan ELSE baseCopy
          /\ lastWriteFailed' = writeFails
          /\ basePlan' = base
          /\ currentPlan' = adaptive
          /\ winCurrentPlan' = adaptive
          /\ heap' = [[Collect(heap, {}) EXCEPT ![base] = baseCopy]
                        EXCEPT ![adaptive] = adapted]
          /\ lastCall' = Call("renderPlan", FALSE, StartDate(today), adaptive)
  /\ planOutputHidden' = FALSE
  /\ generatedOn' = today
  /\ UNCHANGED <<today, ocrLogs, pending, callVars, logsText>>

\* backBtn click listener
Back ==
  /\ ~planOutputHidden
  /\ planOutputHidden' = TRUE
  /\ UNCHANGED <<today, ocrLogs, ocrBasePlan, heap, basePlan, currentPlan,
                 winCurrentPlan, pending, lastGenerated, lastWriteFailed, callVars,
                 readVars>>

\* a listener that copies the plan on display
AdaptSourceCurrent(base, current) == current

\* the object the storage listener copies: window.basePlan
AdaptSource(base, current) == base

\* window storage listener, on a notification that 'ocrLogs' changed
StorageEvent ==
  /\ pending > 0
  /\ pending' = pending - 1
  /\ IF basePlan # NullRef /\ ~planOutputHidden THEN
       \E copied \in {JsonCopy(heap[AdaptSource(basePlan, winCurrentPlan)])} :
       \E adapted \in {AdaptPlan(copied, ocrLogs, today)} :
         LET newCopy ==
               CopyTarget(basePlan, FreshRef({basePlan, currentPlan, winCurrentPlan}))
         IN /\ winCurrentPlan' = newCopy
            /\ heap' = Collect([heap EXCEPT ![newCopy] = adapted],
                               {basePlan, currentPlan, newCopy})
            /\ lastCall' = Call("renderPlan", FALSE, StartDate(today), newCopy)
     ELSE UNCHANGED <<heap, winCurrentPlan, lastCall>>
  /\ UNCHANGED <<today, ocrLogs, ocrBasePlan, basePlan, currentPlan,
                 planOutputHidden, lastGenerated, lastWriteFailed, callVars,
                 logsText, generatedOn>>

\* calendarBtn click listener: downloadCalendar(currentPlan), with the
\* closure's currentPlan
CalendarClick ==
  /\ currentPlan # NullRef
  /\ lastCall' = Call("downloadCalendar", FALSE, StartDate(today), currentPlan)
  /\ UNCHANGED <<today, ocrLogs, pageVars, callVars, logsText, generatedOn>>

\* the calendar day ends
Tick ==
  /\ today < MaxDay
  /\ today' = today + 1
  /\ UNCHANGED <<ocrLogs, pageVars, callVars, readVars>>

Init ==
  /\ today = 1
  /\ ocrLogs = <<>>
  /\ InitPage
  /\ InitCall
  /\ InitRead

Next ==
  \/ \E d \in PageInputs(today) : \E writeFails \in BOOLEAN : Submit(d, writeFails)
  \/ Back
  \/ StorageEvent
  \/ CalendarClick
  \/ \E entry \in PageLogEntries : LogSubmit(entry)
  \/ Tick

Spec == Init /\ [][Next]_vars

----------------------------------------------------------------------------
(* Properties of generatePlan, checked under SpecGen *)

Generated == aPlan # NullPlan

PhaseSum(ph) == ph.baseWeeks + ph.buildWeeks + ph.specificWeeks + ph.taperWeeks

\* C1: for every weeksToRace >= 1 the four phase counts of the plan that
\* generatePlan returns add up to weeksToRace.
C1_PhaseCountsSum ==
  Generated =>
    /\ aPlan.weeksToRace >= 1
    /\ PhaseSum(aPlan.phases) = aPlan.weeksToRace

\* a plan of fewer than four weeks, where the sum holds with a negative
\* build count
C1_Witness ==
  /\ Generated
  /\ aPlan.weeksToRace < 4
  /\ PhaseSum(aPlan.phases) = aPlan.weeksToRace

\* C2: for every weeksToRace >= 1 each of the four phase counts of the plan
\* that generatePlan returns is a non-negative integer.
C2_PhaseCountsNonNegative ==
  Generated =>
    /\ aPlan.phases.baseWeeks >= 0
    /\ aPlan.phases.buildWeeks >= 0
    /\ aPlan.phases.specificWeeks >= 0
    /\ aPlan.phases.taperWeeks >= 0

\* max(startMileage x peakMultiplier, 10) of the submitted form data, with
\* the multipliers 1.5, 1.8, 2.2 and 3.0 by race distance
ClaimedPeak(d) ==
  LET tenths == CASE d.raceDistance = "5k" -> 15
                  [] d.raceDistance = "10k" -> 18
                  [] d.raceDistance = "21k" -> 22
                  [] OTHER -> 30
  IN Max((d.runningMileage * (Scale \div 100) * tenths) \div 10, 10 * Scale)

\* that peak to one decimal place, in tenths of a mile
ClaimedPeakRounded(d) == (ClaimedPeak(d) + (Scale \div 20)) \div (Scale \div 10)

Mileages == [w \in 1..Len(aPlan.weeks) |-> aPlan.weeks[w].mileage]

NonDecreasing(m) == \A w \in 1..(Len(m) - 1) : m[w] <= m[w + 1]

\* C3 as claimed: the weekly mileages of a generated plan never decrease,
\* none exceeds max(startMileage x peakMultiplier, 10), and a week at that
\* peak is followed by weeks of the same mileage.
C3_MileageWithinPeak ==
  (Generated /\ data.runningMileage >= 0) =>
    /\ NonDecreasing(Mileages)
    /\ \A w \in 1..Len(Mileages) : Mileages[w] * (Scale \div 10) <= ClaimedPeak(data)
    /\ \A w \in 1..Len(Mileages) : \A v \in w..Len(Mileages) :
         Mileages[w] * (Scale \div 10) = ClaimedPeak(data) => Mileages[v] = Mileages[w]

\* C3 as amended: the weekly mileages of a generated plan never decrease,
\* none exceeds max(startMileage x peakMultiplier, 10) rounded to one
\* decimal place, and a week at that rounded peak is followed by weeks of
\* the same mileage.
C3_MileageWithinRoundedPeak ==
  (Generated /\ data.runningMileage >= 0) =>
    /\ NonDecreasing(Mileages)
    /\ \A w \in 1..Len(Mileages) : Mileages[w] <= ClaimedPeakRounded(data)
    /\ \A w \in 1..Len(Mileages) : \A v \in w..Len(Mileages) :
         Mileages[w] = ClaimedPeakRounded(data) => Mileages[v] = Mileages[w]

\* a plan that climbs from its start to the peak and then holds it
C3_Witness ==
  /\ Generated
  /\ data.runningMileage > 0
  /\ Len(Mileages) >= 3
  /\ Mileages[1] < Mileages[Len(Mileages) - 1]
  /\ Mileages[Len(Mileages) - 1] = ClaimedPeakRounded(data)
  /\ Mileages[Len(Mileages)] = ClaimedPeakRounded(data)

\* the text the claimed layout puts on day d (1 = Monday) of a week
ClaimedDay(d, trainingDays, strengthFrequency, phase) ==
  LET runDays == Max(1, RoundDiv(6 * trainingDays, 10))
      strengthDays == Min(strengthFrequency, trainingDays - runDays)
  IN IF d <= runDays THEN generateRunDesc(d = 1 /\ trainingDays >= 4, phase)
     ELSE IF d <= runDays + strengthDays THEN generateStrengthDesc(phase)
     ELSE IF d <= trainingDays THEN ActiveRecovery
     ELSE RestDay

\* C17: for trainingDays in 1..7 and strengthFrequency >= 0, every week is
\* laid out as runDays = max(1, round(0.6 x trainingDays)) run days, then
\* min(strengthFrequency, trainingDays - runDays) strength days, then
\* active-recovery days up to trainingDays, then rest days; the first run
\* day is the one hard day when trainingDays >= 4, and no day is hard
\* otherwise.
C17_WeekLayout ==
  (Generated /\ data.trainingDays \in 1..7 /\ data.strengthFrequency \in 0..MaxStrength) =>
    \A w \in 1..Len(aPlan.weeks) : \A d \in 1..7 :
      aPlan.weeks[w].days[d] =
        ClaimedDay(d, data.trainingDays, data.strengthFrequency, aPlan.weeks[w].phase)

\* the weeks of the plan that carry a phase label
WeeksLabelled(label) == {w \in 1..Len(aPlan.weeks) : aPlan.weeks[w].phase = label}

PhaseRank(label) ==
  CASE label = "Base" -> 1 [] label = "Build" -> 2 [] label = "Specific" -> 3
    [] label = "Taper" -> 4

\* C20: the weeks of a generated plan are labelled baseWeeks weeks of Base,
\* then buildWeeks of Build, specificWeeks of Specific and taperWeeks of
\* Taper: the number of weeks with each label is the reported phase count,
\* the labels come in that order, and the final week is a Taper week.
C20_PhaseLabels ==
  Generated =>
    /\ Cardinality(WeeksLabelled("Base")) = aPlan.phases.baseWeeks
    /\ Cardinality(WeeksLabelled("Build")) = aPlan.phases.buildWeeks
    /\ Cardinality(WeeksLabelled("Specific")) = aPlan.phases.specificWeeks
    /\ Cardinality(WeeksLabelled("Taper")) = aPlan.phases.taperWeeks
    /\ \A w \in 1..(Len(aPlan.weeks) - 1) :
         PhaseRank(aPlan.weeks[w].phase) <= PhaseRank(aPlan.weeks[w + 1].phase)
    /\ aPlan.weeks[Len(aPlan.weeks)].phase = "Taper"

----------------------------------------------------------------------------
(* Properties of adaptPlan, checked under SpecAdapt.  After a call, aPrev  *)
(* is the plan object as the call found it and aPlan as the call left it.  *)

Called == aCount >= 1

aMode == aModes[Len(aModes)]

\* the days adaptPlan walks: from the start date through today, inside the
\* plan's weeks
Window == {d \in StartDate(today)..today : d < StartDate(today) + 7 * Len(aPrev.weeks)}

WindowLogged == {d \in Window : Logged(ocrLogs, d)}

\* the largest 0-based week index that holds a logged day of the window
LastLoggedWeek ==
  IF WindowLogged = {} THEN 0 - 1
  ELSE CHOOSE k \in {(d - StartDate(today)) \div 7 : d \in WindowLogged} :
         \A d \in WindowLogged : (d - StartDate(today)) \div 7 <= k

RECURSIVE RpeSum(_)
RpeSum(days) ==
  IF days = {} THEN 0
  ELSE LET d == CHOOSE x \in days : TRUE
           r == LogOf(ocrLogs, d).rpe
       IN (IF r = NaN THEN 0 ELSE r) + RpeSum(days \ {d})

DayTexts(plan) == [w \in 1..Len(plan.weeks) |-> plan.weeks[w].days]

ChangedDays(w) == {d \in 1..7 : aPlan.weeks[w].days[d] # aPrev.weeks[w].days[d]}

\* C4: every week of a plan has exactly 7 day assignments, in the output of
\* generatePlan and after any number of adaptPlan calls, which add or remove
\* neither a day nor a week.
C4_SevenDays ==
  /\ Len(aPlan.weeks) = aPlan.weeksToRace
  /\ \A w \in 1..Len(aPlan.weeks) : Len(aPlan.weeks[w].days) = 7
  /\ Called => Len(aPlan.weeks) = Len(aPrev.weeks)

\* a plan object that two calls in a row have rewritten
C4_Witness ==
  /\ aCount >= 2
  /\ aMode \in {"lighten", "intensify"}
  /\ DayTexts(aPlan) # DayTexts(aPrev)
  /\ \A w \in 1..Len(aPlan.weeks) : Len(aPlan.weeks[w].days) = 7

\* C5 as claimed: with the log store and the date held fixed, a second
\* adaptPlan call leaves the plan as the first call left it.
C5_Idempotent == aCount >= 2 => aPlan = aPrev

\* C5 as amended: with the log store and the date held fixed, a second
\* adaptPlan call ends with the mode of the first; it leaves the plan as the
\* first call left it when that mode is none or the call returns before
\* choosing a mode; in lighten and intensify mode it scales the mileage of
\* every week after the last logged week once more.
C5_SameModeAgain ==
  aCount >= 2 =>
    /\ \A k \in 1..Len(aModes) : aModes[k] = aModes[1]
    /\ aMode \in {"return", "none"} => aPlan = aPrev
    /\ aMode \in {"lighten", "intensify"} =>
         \A w \in 1..Len(aPlan.weeks) :
           w - 1 > LastLoggedWeek =>
             LET f == IF aMode = "lighten" THEN 9 ELSE 11
                 gap == 10 * aPlan.weeks[w].mileage - f * aPrev.weeks[w].mileage
             IN gap <= 5 /\ 0 - gap <= 5

\* a second call in lighten mode that lowers a mileage again
C5_Witness ==
  /\ aCount >= 2
  /\ aModes[1] = "lighten"
  /\ aMode = "lighten"
  /\ \E w \in 1..Len(aPlan.weeks) : aPlan.weeks[w].mileage < aPrev.weeks[w].mileage

\* whether the week at index w (0-based, counted from the start date the
\* call computed) holds a date some log entry carries
WeekLogged(w) ==
  \E d \in (StartDate(today) + 7 * w)..(StartDate(today) + 7 * w + 6) : Logged(ocrLogs, d)

\* C11 as claimed: adaptPlan leaves every week that contains a logged date,
\* and every week before such a week, with its mileage and its 7 day texts.
C11_LoggedWeeksKept ==
  Called =>
    \A w \in 1..Len(aPlan.weeks) :
      (\E v \in w..Len(aPlan.weeks) : WeekLogged(v - 1)) =>
        /\ aPlan.weeks[w].mileage = aPrev.weeks[w].mileage
        /\ aPlan.weeks[w].days = aPrev.weeks[w].days

\* C11 as amended: adaptPlan leaves every week that contains a logged date
\* among the days it walks (from the start date it computes through today),
\* and every week before such a week, with its mileage and its 7 day texts;
\* a log entry dated after today does not protect its week.
C11_WalkedLoggedWeeksKept ==
  Called =>
    \A w \in 1..Len(aPlan.weeks) :
      w - 1 <= LastLoggedWeek =>
        /\ aPlan.weeks[w].mileage = aPrev.weeks[w].mileage
        /\ aPlan.weeks[w].days = aPrev.weeks[w].days

\* a call that rewrote the second week and kept the first, which holds the
\* logged day
C11_Witness ==
  /\ Called
  /\ aMode \in {"lighten", "intensify"}
  /\ LastLoggedWeek = 0
  /\ Len(aPlan.weeks) >= 2
  /\ aPlan.weeks[1] = aPrev.weeks[1]
  /\ aPlan.weeks[2].mileage # aPrev.weeks[2].mileage

\* the walked logged days whose entry carries an effort that parses
WindowRated == {d \in WindowLogged : LogOf(ocrLogs, d).rpe # NaN}

\* the mode chosen with avgRPE the mean of the efforts that parse: no such
\* effort, no mean, and neither avgRPE >= 6 nor avgRPE <= 4 holds
ModeOnRatedMean ==
  LET c == Cardinality(WindowLogged)
      t == Cardinality(Window)
      n == Cardinality(WindowRated)
      r == RpeSum(WindowLogged)
  IN IF 2 * c < t \/ (n > 0 /\ r >= 6 * n) THEN "lighten"
     ELSE IF 5 * c >= 4 * t /\ n > 0 /\ r <= 4 * n THEN "intensify"
     ELSE "none"

WindowBeforeToday ==
  {d \in StartDate(today)..today :
     d < Min(today, StartDate(today) + 7 * Len(aPrev.weeks))}

\* C16 as claimed: totalDaysPassed is the number of days d with
\* start <= d < min(today, start + 7 x weekCount), and completedSessions the
\* number of those days that have a log entry.
C16_DaysBeforeToday ==
  Called =>
    /\ aStats.totalDaysPassed = Cardinality(WindowBeforeToday)
    /\ aStats.completedSessions =
         Cardinality({d \in WindowBeforeToday : Logged(ocrLogs, d)})

\* C16 as amended: totalDaysPassed is the number of days d with
\* start <= d <= today and d < start + 7 x weekCount, start being the start
\* date the call computes; completedSessions is the number of those days
\* that have a log entry; the mode is chosen on their quotient.
C16_DaysThroughToday ==
  Called =>
    /\ aStats.totalDaysPassed = Cardinality(Window)
    /\ aStats.completedSessions = Cardinality(WindowLogged)
    /\ aMode = "return" <=> (Cardinality(Window) = 0 \/ Cardinality(WindowLogged) = 0)
    /\ 2 * Cardinality(WindowLogged) < Cardinality(Window) => aMode \in {"return", "lighten"}
    /\ aMode = "intensify" => 5 * Cardinality(WindowLogged) >= 4 * Cardinality(Window)

\* a call on a Monday, the day the plan starts, with an entry for that day
\* and an entry for no day of the window
C16_Witness ==
  /\ Called
  /\ Len(ocrLogs) = 2
  /\ aStats.totalDaysPassed = 1
  /\ aStats.completedSessions = 1
  /\ today \in Window

\* the weekly mileages of the plan as the call found it
PrevMileages == [w \in 1..Len(aPrev.weeks) |-> aPrev.weeks[w].mileage]

\* C21 as claimed: after adaptPlan has run in lighten or intensify mode on a
\* plan whose weekly mileages are non-decreasing, the weekly mileages of the
\* plan are still non-decreasing from the first week to the last.
C21_MileageStillNonDecreasing ==
  (Called /\ aMode \in {"lighten", "intensify"} /\ NonDecreasing(PrevMileages))
    => NonDecreasing(Mileages)

\* C21 as amended: after adaptPlan has run in intensify mode on a plan
\* whose weekly mileages are non-decreasing, they are still non-decreasing;
\* after it has run in lighten mode they are non-decreasing among the weeks
\* up to the last logged week and among the weeks after it, and only the
\* first week after the last logged week can be lower than the week before
\* it.
C21_MileageNonDecreasingApart ==
  (Called /\ aMode \in {"lighten", "intensify"} /\ NonDecreasing(PrevMileages)) =>
    /\ aMode = "intensify" => NonDecreasing(Mileages)
    /\ \A w \in 1..(Len(Mileages) - 1) :
         w - 1 # LastLoggedWeek => Mileages[w] <= Mileages[w + 1]

\* a lightened plan whose second week is below the first, logged, week and
\* whose later weeks rise again
C21_Witness ==
  /\ Called
  /\ aMode = "lighten"
  /\ NonDecreasing(PrevMileages)
  /\ LastLoggedWeek = 0
  /\ Len(Mileages) >= 3
  /\ Mileages[2] < Mileages[1]
  /\ Mileages[2] < Mileages[3]

\* C6: when the log store is empty, or no day of the walked window has a
\* log entry, or the window holds no day, adaptPlan leaves the plan as it
\* found it.
C6_NothingLoggedNoChange ==
  (Called /\ (Len(ocrLogs) = 0 \/ WindowLogged = {} \/ Window = {})) => aPlan = aPrev

\* a call on a Monday with a filled log store that holds no entry for the
\* one walked day, on a plan with a later week that a change would show in
C6_Witness ==
  /\ Called
  /\ Window # {}
  /\ Len(ocrLogs) > 0
  /\ WindowLogged = {}
  /\ Len(aPrev.weeks) >= 2
  /\ aPrev.weeks[2].mileage > 0
  /\ aPlan = aPrev

\* C8: with at least one day passed and one session completed, the mode is
\* lighten if completionRatio < 0.5 or avgRPE >= 6, else intensify if
\* completionRatio >= 0.8 and avgRPE <= 4, else none; mode none leaves the
\* plan unchanged.
C8_ModeSelection ==
  LET total == Cardinality(Window)
      completed == Cardinality(WindowLogged)
      rpe == RpeSum(WindowLogged)
      claimed ==
        IF 2 * completed < total \/ rpe >= 6 * completed THEN "lighten"
        ELSE IF 5 * completed >= 4 * total /\ rpe <= 4 * completed THEN "intensify"
        ELSE "none"
  IN (Called /\ total >= 1 /\ completed >= 1) =>
       /\ aMode = claimed
       /\ aMode = "none" => aPlan = aPrev

\* a call that ends in mode none on a plan with a later week to change
C8_Witness ==
  /\ Called
  /\ Cardinality(WindowLogged) >= 1
  /\ aMode = "none"
  /\ Len(aPrev.weeks) >= 2
  /\ aPrev.weeks[2].mileage > 0
  /\ aPlan = aPrev

\* C9: in lighten (intensify) mode every week after the last logged week
\* gets its mileage times 0.9 (1.1), rounded to one decimal place.
C9_MileageScaled ==
  (Called /\ aMode \in {"lighten", "intensify"}) =>
    \A w \in 1..Len(aPlan.weeks) :
      w - 1 > LastLoggedWeek =>
        LET f == IF aMode = "lighten" THEN 9 ELSE 11
            gap == 10 * aPlan.weeks[w].mileage - f * aPrev.weeks[w].mileage
        IN gap <= 5 /\ 0 - gap <= 5

\* a lighten call that lowers the mileage of a week after the logged one,
\* where the product lies midway between two tenths
C9_Witness ==
  /\ Called
  /\ aMode = "lighten"
  /\ \E w \in 1..Len(aPlan.weeks) :
       /\ w - 1 > LastLoggedWeek
       /\ (9 * aPrev.weeks[w].mileage) % 10 = 5
       /\ aPlan.weeks[w].mileage < aPrev.weeks[w].mileage

\* the first day of the week, Monday to Sunday, whose text the mode's
\* pattern matches; 0 when there is none
FirstMatch(days, mode) ==
  LET hits == {d \in 1..Len(days) :
                 \/ mode = "lighten" /\ MatchesLighten(days[d])
                 \/ mode = "intensify" /\ MatchesIntensify(days[d])}
  IN IF hits = {} THEN 0 ELSE CHOOSE d \in hits : \A e \in hits : d <= e

\* C10: one adaptPlan call changes at most one day text per week: the first
\* day that matches the mode's pattern becomes the active-recovery text in
\* lighten mode and the interval text in intensify mode; a week with no
\* matching day keeps its 7 texts.
C10_OneDayPerWeek ==
  (Called /\ aMode \in {"lighten", "intensify"}) =>
    \A w \in 1..Len(aPlan.weeks) :
      LET first == FirstMatch(aPrev.weeks[w].days, aMode)
      IN /\ Cardinality(ChangedDays(w)) <= 1
         /\ ChangedDays(w) \subseteq {first}
         /\ (w - 1 > LastLoggedWeek /\ first # 0) =>
              /\ ChangedDays(w) = {first}
              /\ aPlan.weeks[w].days[first] =
                   (IF aMode = "lighten" THEN ActiveRecovery ELSE IntervalRun)

\* an intensify call on a week with several matching days, of which the
\* first alone changes, and a week with no hard day that lighten leaves
C10_Witness ==
  /\ Called
  /\ aMode = "intensify"
  /\ \E w \in 1..Len(aPlan.weeks) :
       /\ Cardinality({d \in 1..7 : MatchesIntensify(aPrev.weeks[w].days[d])}) >= 2
       /\ ChangedDays(w) = {FirstMatch(aPrev.weeks[w].days, "intensify")}

----------------------------------------------------------------------------
(* Properties of the planner page, checked under Spec *)

----------------------------------------------------------------------------
(* Properties of the operations that read the log store, checked under     *)
(* SpecStore                                                               *)

\* C13: whenever the stored log text is malformed (it does not parse, or it
\* parses to a value that is not a list), every operation that reads it
\* completes without raising an error and behaves as on an empty log store
\* (adaptPlan leaves the plan as it found it).
C13_MalformedStoreSilent ==
  logsText # "list" =>
    /\ ~lastCall.raised
    /\ Called => aPlan = aPrev

\* C14: the log store is append-only: a step that changes the stored list
\* is a log submission and appends one entry to it, so that the list before
\* is a prefix of the list after and the new entry is last; no read
\* operation changes the stored list.
C14_AppendOnly ==
  [][/\ ocrLogs' # ocrLogs =>
          /\ lastCall'.op = "logSubmit"
          /\ \E entry \in LogEntries : ocrLogs' = Append(ocrLogs, entry)
     /\ lastCall'.op # "logSubmit" => ocrLogs' = ocrLogs]_vars

\* two different entries stored one after the other, and then read
C14_Witness ==
  /\ Len(ocrLogs) = 2
  /\ ocrLogs[1] # ocrLogs[2]
  /\ lastCall.op \in {"loadLogs", "adaptPlan", "renderPlan", "downloadCalendar", "review"}

----------------------------------------------------------------------------
(* Properties of the planner page's use of dates and plans, checked under  *)
(* Spec                                                                    *)

\* C15: the plan start date is fixed by the day the plan was generated:
\* adaptPlan, renderPlan and downloadCalendar use the first Monday on or
\* after that day, on whatever later day they are invoked.
C15_StartDateFixed ==
  (generatedOn # NoDate /\ lastCall.op \in {"adaptPlan", "renderPlan", "downloadCalendar"})
    => lastCall.startDate = StartDate(generatedOn)

\* C18: adaptation never compounds: a storage notification received while
\* a plan is displayed leaves window.currentPlan equal to one adaptPlan
\* application to the base plan under the current log store, however many
\* notifications came before, and leaves the base plan as it was.
C18_NoCompounding ==
  [][(pending' = pending - 1 /\ basePlan # NullRef /\ ~planOutputHidden) =>
        /\ heap'[winCurrentPlan'] = AdaptPlan(heap[basePlan], ocrLogs, today)
        /\ heap'[basePlan'] = heap[basePlan]]_vars

\* a displayed plan that the notifications of two log entries have
\* re-adapted, lighter than the base plan
C18_Witness ==
  /\ ~planOutputHidden
  /\ Len(ocrLogs) = 2
  /\ pending = 0
  /\ lastCall.op = "renderPlan"
  /\ winCurrentPlan # currentPlan
  /\ Len(heap[basePlan].weeks) >= 2
  /\ heap[winCurrentPlan].weeks[2].mileage < heap[basePlan].weeks[2].mileage
  /\ heap[currentPlan] = heap[basePlan]

\* C19: the plan a click on the calendar button passes to downloadCalendar
\* is the plan most recently adapted and rendered, window.currentPlan.
C19_CalendarExportsDisplayed ==
  lastCall.op = "downloadCalendar" => heap[lastCall.plan] = heap[winCurrentPlan]

====
